---- MODULE Spec2Model ----
(***************************************************************************)
(* Frequency-capping cache engine of campaign_vast_generator:              *)
(* CampaignCacheManager (src/cache_manager.py) on top of the RedisGateway  *)
(* keyed store, driven by concurrent workers.                              *)
(*                                                                         *)
(* A step of a worker is one store operation together with the local       *)
(* computation that prepares its arguments (clock read, key formatting).   *)
(* Time advances between steps (Tick); the store drops a key when its      *)
(* expiry instant is reached.                                              *)
(***************************************************************************)
EXTENDS Integers, Sequences, FiniteSets, TLC

\* ------------------------------------------------------------------ bounds
MaxEvents == 3       \* calls started plus clock advances in one behaviour
T0 == 100            \* clock value at the start (epoch seconds)

Workers == {"w1", "w2"}
Users == {"u1"}
Campaigns == {1, 2}
Level1Ids == {7}
Level2Ids == {9}
Windows == {<<>>, <<1>>}          \* timeout argument: None or a number of days / hours
MaxAllowedSet == {1, 2}           \* max_allowed of the show counters
WatchTimes == {30, 60}            \* watch_time of a level-2 call, seconds
L2Thresholds == {60, 86400}       \* max_allowed of a level-2 call: a timedelta, in total seconds
TickSteps == {1, 3600, 86400}     \* seconds the clock may advance by between two steps

\* Python's None and a present value
None == <<>>
Some(v) == <<v>>
UserArgs == {None} \cup {Some(u) : u \in Users}
KeyUsers == Users \cup {"None"}      \* what "user_{}".format(uid) can hold: a uid, or str(None)
Families == {{"global"}, {"user"}, {"level_1"}, {"level_2"}}

VARIABLES
  now,        \* time.time(), seconds
  counters,   \* _counters_gateway: key -> [present, val, exp]
  exclude,    \* _exclude_lists_gateway: sorted set name -> member -> None | Some(score)
  noads,      \* _no_ads_gateway: key -> [present, val, exp]
  pc,         \* worker -> position in its current call
  loc,        \* worker -> arguments and locals of its current call
  applied,    \* counter key -> sum of the increments applied since the key was last absent
  observed,   \* counter key -> largest count an incr returned since the key was last absent
  everOver,   \* cap key -> some call has seen count >= max_allowed for it
  winStart,   \* campaign -> time the current global counter was created by incr
  events,     \* calls started and clock advances so far
  scope       \* the counter families the callers of this behaviour address

vars == <<now, counters, exclude, noads, pc, loc, applied, observed, everOver, winStart, events, scope>>
store == <<counters, exclude, noads>>
ghost == <<applied, observed, everOver, winStart>>

\* ------------------------------------------------------------ cache keys
campaign_total_show_count_cache_key(c) == <<"campaign_total_show_count", c>>
campaign_total_show_count_insertion_timestamp_cache_key(c) == <<"campaign_total_show_count_timestamp", c>>
user_campaign_show_count_cache_key(u, c) == <<"user_campaign_show_count", u, c>>
user_level_1_campaign_show_counter_cache_key(u, l) == <<"user_level_1_show_count", u, l>>
user_level_2_campaign_watch_time_counter_cache_key(u, l) == <<"user_level_2_watch_time", u, l>>
exclude_campaigns_cache_key == <<"excluded_campaigns">>
user_excluded_campaigns_cache_key(u) == <<"user_excluded_campaigns", u>>
user_level_1_no_ads_cache_key(u, l) == <<"user_level_1_no_ads", u, l>>
user_level_2_no_ads_cache_key(u, l) == <<"user_level_2_no_ads", u, l>>

ShowCounterKeys ==
  {campaign_total_show_count_cache_key(c) : c \in Campaigns}
  \cup {user_campaign_show_count_cache_key(u, c) : u \in KeyUsers, c \in Campaigns}
  \cup {user_level_1_campaign_show_counter_cache_key(u, l) : u \in KeyUsers, l \in Level1Ids}
  \cup {user_level_2_campaign_watch_time_counter_cache_key(u, l) : u \in KeyUsers, l \in Level2Ids}
CounterKeys ==
  ShowCounterKeys \cup {campaign_total_show_count_insertion_timestamp_cache_key(c) : c \in Campaigns}
ExcludeNames == {exclude_campaigns_cache_key} \cup {user_excluded_campaigns_cache_key(u) : u \in KeyUsers}
NoAdsKeys ==
  {user_level_1_no_ads_cache_key(u, l) : u \in KeyUsers, l \in Level1Ids}
  \cup {user_level_2_no_ads_cache_key(u, l) : u \in KeyUsers, l \in Level2Ids}

\* --------------------------------------------------- score calculators
\* _get_days_seconds / _get_hours_seconds: None stays None
_get_days_seconds(days) == IF days # None THEN Some(days[1] * 3600 * 24) ELSE None
_get_hours_seconds(hours) == IF hours # None THEN Some(hours[1] * 3600) ELSE None

\* datetime.timedelta of a non-negative number of seconds, and its .seconds field
TimeDelta(total) == [days |-> total \div 86400, seconds |-> total % 86400]

\* ------------------------------------------------- keyed store (RedisGateway)
AbsentKey == [present |-> FALSE, val |-> 0, exp |-> None]
TtlNoExpiry == -1     \* get_key_ttl of a key that has no expiry
TtlMissing == -2      \* get_key_ttl of a key that is absent

\* get(key, cast=int)
GatewayGet(ns, key) == IF ns[key].present THEN Some(ns[key].val) ELSE None
\* set(key, value, timeout): overwrite, with optional expiry
GatewaySet(ns, key, v, timeout) ==
  [ns EXCEPT ![key] = [present |-> TRUE, val |-> v,
                       exp |-> IF timeout = None THEN None ELSE Some(now + timeout[1])]]
\* incr(key, value, timeout): the value it returns
GatewayIncrValue(ns, key, by) == IF ns[key].present THEN ns[key].val + by ELSE by
\* incr(key, value, timeout): the store after it; the ttl is applied only to a new key
GatewayIncr(ns, key, by, timeout) ==
  IF ns[key].present
  THEN [ns EXCEPT ![key].val = @ + by]
  ELSE GatewaySet(ns, key, by, timeout)
\* get_key_ttl(key): remaining seconds, or the no-expiry / missing marker
GatewayTtl(ns, key) ==
  IF ~ns[key].present THEN TtlMissing
  ELSE IF ns[key].exp = None THEN TtlNoExpiry
  ELSE ns[key].exp[1] - now
\* zadd(ordered_set_name, key, score): insert or update a member's score
GatewayZadd(z, name, member, score) == [z EXCEPT ![name][member] = Some(score)]
\* the members of a sorted set with min_score <= score (max_score is "inf")
ZInRange(z, name, min_score) ==
  {m \in Campaigns : z[name][m] # None /\ z[name][m][1] >= min_score}
\* a set of members as the sequence the range query returns (ascending score, then member)
RECURSIVE ZOrder(_, _, _)
ZOrder(z, name, S) ==
  IF S = {} THEN <<>>
  ELSE LET m == CHOOSE x \in S : \A y \in S :
                  \/ z[name][x][1] < z[name][y][1]
                  \/ (z[name][x][1] = z[name][y][1] /\ x <= y)
       IN <<m>> \o ZOrder(z, name, S \ {m})
\* zget(ordered_set_name, min_score, "inf", cast=int, rm_out_range): what it returns
GatewayZget(z, name, min_score) == ZOrder(z, name, ZInRange(z, name, min_score))
\* zget: the store after it; rm_out_range deletes every member outside the range
GatewayZgetStore(z, name, min_score, rm_out_range) ==
  IF rm_out_range
  THEN [z EXCEPT ![name] = [m \in Campaigns |->
                               IF m \in ZInRange(z, name, min_score) THEN @[m] ELSE None]]
  ELSE z
\* native TTL: a key is gone once its expiry instant is reached
Expire(ns, t) ==
  [k \in DOMAIN ns |->
     IF ns[k].present /\ ns[k].exp # None /\ ns[k].exp[1] <= t THEN AbsentKey ELSE ns[k]]

Range(s) == {s[i] : i \in 1..Len(s)}

Max(a, b) == IF a >= b THEN a ELSE b
\* bool() answering True only above one
Bool_above_one(x) == x # None /\ x[1] > 1
\* Python's bool() of what get(cast=int) returns
Bool(x) == x # None /\ x[1] # 0

\* ------------------------------------------------------------------ state
IdleLoc ==
  [op |-> "none", uid |-> None, id |-> 0, timeout |-> None, max |-> 0, wt |-> 0,
   got |-> None, ts |-> None, count |-> None, ttl |-> None, score |-> None,
   wrote |-> FALSE, res |-> <<>>, evicted |-> {},
   level_1_id |-> None, level_2_id |-> None, level_3_ids |-> FALSE, client |-> FALSE,
   check_level_1_no_ads |-> FALSE, check_level_2_no_ads |-> FALSE,
   campaigns |-> {}, dispatched |-> FALSE, response |-> "none", failed |-> FALSE]

Init ==
  /\ now = T0
  /\ counters = [k \in CounterKeys |-> AbsentKey]
  /\ exclude = [n \in ExcludeNames |-> [m \in Campaigns |-> None]]
  /\ noads = [k \in NoAdsKeys |-> AbsentKey]
  /\ pc = [w \in Workers |-> "idle"]
  /\ loc = [w \in Workers |-> IdleLoc]
  /\ applied = [k \in ShowCounterKeys |-> 0]
  /\ observed = [k \in ShowCounterKeys |-> 0]
  /\ everOver = [k \in ShowCounterKeys |-> FALSE]
  /\ winStart = [c \in Campaigns |-> None]
  /\ events = 0
  /\ scope \in Families

\* the bookkeeping of one incr on a show counter: what was applied and what was returned
Counted(key, by, count, over) ==
  /\ applied' = [applied EXCEPT ![key] = @ + by]
  /\ observed' = [observed EXCEPT ![key] = Max(@, count)]
  /\ everOver' = [everOver EXCEPT ![key] = @ \/ over]

\* ------------------------------------------------------------------ flag gets
\* get_user_level_1_no_ads: None without a uid, else the stored flag
get_user_level_1_no_ads(uid, level_1_id) ==
  IF uid # None THEN GatewayGet(noads, user_level_1_no_ads_cache_key(uid[1], level_1_id)) ELSE None
\* the same get with the uid test inverted
get_user_level_2_no_ads_inverted(uid, level_2_id) ==
  IF uid = None THEN GatewayGet(noads, user_level_2_no_ads_cache_key("None", level_2_id)) ELSE None
\* get_user_level_2_no_ads
get_user_level_2_no_ads(uid, level_2_id) ==
  IF uid # None THEN GatewayGet(noads, user_level_2_no_ads_cache_key(uid[1], level_2_id)) ELSE None

\* ------------------------------------------- global campaign show counter
\* the same call writing the insertion timestamp whatever the get found
SetCampaignTotalShowCounter_get_always(w) ==
  /\ pc[w] = "idle" /\ events < MaxEvents
  /\ \E c \in Campaigns, timeout \in Windows, max_allowed \in MaxAllowedSet :
       /\ loc' = [loc EXCEPT ![w] = [IdleLoc EXCEPT !.op = "global_show", !.id = c,
                      !.timeout = timeout, !.max = max_allowed,
                      !.got = GatewayGet(counters, campaign_total_show_count_cache_key(c))]]
       /\ pc' = [pc EXCEPT ![w] = "G_set_ts"]
  /\ events' = events + 1
  /\ UNCHANGED <<now, store, ghost, scope>>

\* set_campaign_total_show_counter -> _set_campaign_total_show_counter: the get of line 159
SetCampaignTotalShowCounter_get(w) ==
  /\ pc[w] = "idle" /\ events < MaxEvents
  /\ \E c \in Campaigns, timeout \in Windows, max_allowed \in MaxAllowedSet :
       LET key == campaign_total_show_count_cache_key(c)
           got == GatewayGet(counters, key)
       IN /\ loc' = [loc EXCEPT ![w] = [IdleLoc EXCEPT !.op = "global_show", !.id = c,
                                          !.timeout = timeout, !.max = max_allowed, !.got = got]]
          /\ pc' = [pc EXCEPT ![w] = IF got = None THEN "G_set_ts" ELSE "G_incr"]
  /\ events' = events + 1
  /\ UNCHANGED <<now, store, ghost, scope>>

\* line 160: the insertion timestamp, written when the get found no counter
SetCampaignTotalShowCounter_set_ts(w) ==
  /\ pc[w] = "G_set_ts"
  /\ counters' = GatewaySet(counters,
                            campaign_total_show_count_insertion_timestamp_cache_key(loc[w].id),
                            now, None)
  /\ loc' = [loc EXCEPT ![w].ts = Some(now)]
  /\ pc' = [pc EXCEPT ![w] = "G_incr"]
  /\ UNCHANGED <<now, exclude, noads, ghost, events, scope>>

\* the same step as a read-modify-write: the count of line 159's get, plus one, set back
SetCampaignTotalShowCounter_incr_rmw(w) ==
  /\ pc[w] = "G_incr"
  /\ LET key == campaign_total_show_count_cache_key(loc[w].id)
         count == IF loc[w].got = None THEN 1 ELSE loc[w].got[1] + 1
     IN /\ counters' = IF counters[key].present
                       THEN [counters EXCEPT ![key].val = count]
                       ELSE GatewaySet(counters, key, count, _get_days_seconds(loc[w].timeout))
        /\ loc' = [loc EXCEPT ![w].count = Some(count)]
        /\ pc' = [pc EXCEPT ![w] = IF count >= loc[w].max THEN "G_ttl" ELSE "done"]
        /\ Counted(key, 1, count, count >= loc[w].max)
        /\ winStart' = IF counters[key].present THEN winStart
                       ELSE [winStart EXCEPT ![loc[w].id] = Some(now)]
  /\ UNCHANGED <<now, exclude, noads, events, scope>>

\* lines 161-165: incr with the day window, then the threshold test
SetCampaignTotalShowCounter_incr(w) ==
  /\ pc[w] = "G_incr"
  /\ LET key == campaign_total_show_count_cache_key(loc[w].id)
         count == GatewayIncrValue(counters, key, 1)
     IN /\ counters' = GatewayIncr(counters, key, 1, _get_days_seconds(loc[w].timeout))
        /\ loc' = [loc EXCEPT ![w].count = Some(count)]
        /\ pc' = [pc EXCEPT ![w] = IF count >= loc[w].max THEN "G_ttl" ELSE "done"]
        /\ Counted(key, 1, count, count >= loc[w].max)
        /\ winStart' = IF counters[key].present THEN winStart
                       ELSE [winStart EXCEPT ![loc[w].id] = Some(now)]
  /\ UNCHANGED <<now, exclude, noads, events, scope>>

\* line 166, left operand: get_key_ttl of the counter key
SetCampaignTotalShowCounter_ttl(w) ==
  /\ pc[w] = "G_ttl"
  /\ loc' = [loc EXCEPT ![w].ttl =
                Some(GatewayTtl(counters, campaign_total_show_count_cache_key(loc[w].id)))]
  /\ pc' = [pc EXCEPT ![w] = "G_zadd"]
  /\ UNCHANGED <<now, store, ghost, events, scope>>

\* lines 166-167: blocking_timeout = ttl + current timestamp, then _set_exclude_campaigns
SetCampaignTotalShowCounter_zadd(w) ==
  /\ pc[w] = "G_zadd"
  /\ LET blocking_timeout == loc[w].ttl[1] + now
     IN /\ exclude' = GatewayZadd(exclude, exclude_campaigns_cache_key, loc[w].id, blocking_timeout)
        /\ loc' = [loc EXCEPT ![w].score = Some(blocking_timeout), ![w].wrote = TRUE]
  /\ pc' = [pc EXCEPT ![w] = "done"]
  /\ UNCHANGED <<now, counters, noads, ghost, events, scope>>

\* --------------------------------------------- user x campaign show counter
\* the same call with the overflow write made only when the count equals max_allowed
SetUserCampaignShowCounter_incr_once(w) ==
  /\ pc[w] = "idle" /\ events < MaxEvents
  /\ \E uid \in UserArgs :
       IF uid # None
       THEN \E c \in Campaigns, timeout \in Windows, max_allowed \in MaxAllowedSet :
              LET key == user_campaign_show_count_cache_key(uid[1], c)
                  count == GatewayIncrValue(counters, key, 1)
              IN /\ counters' = GatewayIncr(counters, key, 1, _get_hours_seconds(timeout))
                 /\ loc' = [loc EXCEPT ![w] = [IdleLoc EXCEPT !.op = "user_show", !.uid = uid,
                               !.id = c, !.timeout = timeout, !.max = max_allowed,
                               !.count = Some(count)]]
                 /\ pc' = [pc EXCEPT ![w] = IF count = max_allowed THEN "U_ttl" ELSE "done"]
                 /\ Counted(key, 1, count, count >= max_allowed)
       ELSE /\ loc' = [loc EXCEPT ![w] = [IdleLoc EXCEPT !.op = "user_show"]]
            /\ pc' = [pc EXCEPT ![w] = "done"]
            /\ UNCHANGED <<counters, applied, observed, everOver>>
  /\ events' = events + 1
  /\ UNCHANGED <<now, exclude, noads, winStart, scope>>
\* the same call with a strict threshold test (count > max_allowed)
SetUserCampaignShowCounter_incr_strict(w) ==
  /\ pc[w] = "idle" /\ events < MaxEvents
  /\ \E uid \in UserArgs :
       IF uid # None
       THEN \E c \in Campaigns, timeout \in Windows, max_allowed \in MaxAllowedSet :
              LET key == user_campaign_show_count_cache_key(uid[1], c)
                  count == GatewayIncrValue(counters, key, 1)
              IN /\ counters' = GatewayIncr(counters, key, 1, _get_hours_seconds(timeout))
                 /\ loc' = [loc EXCEPT ![w] = [IdleLoc EXCEPT !.op = "user_show", !.uid = uid,
                               !.id = c, !.timeout = timeout, !.max = max_allowed,
                               !.count = Some(count)]]
                 /\ pc' = [pc EXCEPT ![w] = IF count > max_allowed THEN "U_ttl" ELSE "done"]
                 /\ Counted(key, 1, count, count >= max_allowed)
       ELSE /\ loc' = [loc EXCEPT ![w] = [IdleLoc EXCEPT !.op = "user_show"]]
            /\ pc' = [pc EXCEPT ![w] = "done"]
            /\ UNCHANGED <<counters, applied, observed, everOver>>
  /\ events' = events + 1
  /\ UNCHANGED <<now, exclude, noads, winStart, scope>>

\* set_user_campaign_show_counter -> _set_user_campaign_show_counter: uid test, incr, threshold
SetUserCampaignShowCounter_incr(w) ==
  /\ pc[w] = "idle" /\ events < MaxEvents
  /\ \E uid \in UserArgs :
       IF uid # None
       THEN \E c \in Campaigns, timeout \in Windows, max_allowed \in MaxAllowedSet :
              LET key == user_campaign_show_count_cache_key(uid[1], c)
                  count == GatewayIncrValue(counters, key, 1)
              IN /\ counters' = GatewayIncr(counters, key, 1, _get_hours_seconds(timeout))
                 /\ loc' = [loc EXCEPT ![w] = [IdleLoc EXCEPT !.op = "user_show", !.uid = uid,
                               !.id = c, !.timeout = timeout, !.max = max_allowed,
                               !.count = Some(count)]]
                 /\ pc' = [pc EXCEPT ![w] = IF count >= max_allowed THEN "U_ttl" ELSE "done"]
                 /\ Counted(key, 1, count, count >= max_allowed)
       ELSE /\ loc' = [loc EXCEPT ![w] = [IdleLoc EXCEPT !.op = "user_show"]]
            /\ pc' = [pc EXCEPT ![w] = "done"]
            /\ UNCHANGED <<counters, applied, observed, everOver>>
  /\ events' = events + 1
  /\ UNCHANGED <<now, exclude, noads, winStart, scope>>

\* line 176, left operand: get_key_ttl of the counter key
SetUserCampaignShowCounter_ttl(w) ==
  /\ pc[w] = "U_ttl"
  /\ loc' = [loc EXCEPT ![w].ttl =
                Some(GatewayTtl(counters,
                                user_campaign_show_count_cache_key(loc[w].uid[1], loc[w].id)))]
  /\ pc' = [pc EXCEPT ![w] = "U_zadd"]
  /\ UNCHANGED <<now, store, ghost, events, scope>>

\* lines 176-177: blocking_timeout = ttl + current timestamp, then _set_user_exclude_campaigns
SetUserCampaignShowCounter_zadd(w) ==
  /\ pc[w] = "U_zadd"
  /\ LET blocking_timeout == loc[w].ttl[1] + now
     IN /\ exclude' = GatewayZadd(exclude, user_excluded_campaigns_cache_key(loc[w].uid[1]),
                                  loc[w].id, blocking_timeout)
        /\ loc' = [loc EXCEPT ![w].score = Some(blocking_timeout), ![w].wrote = TRUE]
  /\ pc' = [pc EXCEPT ![w] = "done"]
  /\ UNCHANGED <<now, counters, noads, ghost, events, scope>>

\* ------------------------------------------------ user x level-1 show counter
\* the same call without the uid test: the key is formatted with whatever uid holds
SetUserLevel1ShowCounter_incr_no_uid_test(w) ==
  /\ pc[w] = "idle" /\ events < MaxEvents
  /\ \E uid \in UserArgs, l \in Level1Ids, timeout \in Windows, max_allowed \in MaxAllowedSet :
       LET key == user_level_1_campaign_show_counter_cache_key(
                    IF uid = None THEN "None" ELSE uid[1], l)
           count == GatewayIncrValue(counters, key, 1)
       IN /\ counters' = GatewayIncr(counters, key, 1, _get_hours_seconds(timeout))
          /\ loc' = [loc EXCEPT ![w] = [IdleLoc EXCEPT !.op = "level_1_show", !.uid = uid,
                        !.id = l, !.timeout = timeout, !.max = max_allowed,
                        !.count = Some(count)]]
          /\ pc' = [pc EXCEPT ![w] = IF count >= max_allowed THEN "L1_no_ads" ELSE "done"]
          /\ Counted(key, 1, count, count >= max_allowed)
  /\ events' = events + 1
  /\ UNCHANGED <<now, exclude, noads, winStart, scope>>

\* set_user_level_1_show_counter -> _set_user_level_1_show_counter: uid test, incr, threshold
SetUserLevel1ShowCounter_incr(w) ==
  /\ pc[w] = "idle" /\ events < MaxEvents
  /\ \E uid \in UserArgs :
       IF uid # None
       THEN \E l \in Level1Ids, timeout \in Windows, max_allowed \in MaxAllowedSet :
              LET key == user_level_1_campaign_show_counter_cache_key(uid[1], l)
                  count == GatewayIncrValue(counters, key, 1)
              IN /\ counters' = GatewayIncr(counters, key, 1, _get_hours_seconds(timeout))
                 /\ loc' = [loc EXCEPT ![w] = [IdleLoc EXCEPT !.op = "level_1_show", !.uid = uid,
                               !.id = l, !.timeout = timeout, !.max = max_allowed,
                               !.count = Some(count)]]
                 /\ pc' = [pc EXCEPT ![w] = IF count >= max_allowed THEN "L1_no_ads" ELSE "done"]
                 /\ Counted(key, 1, count, count >= max_allowed)
       ELSE /\ loc' = [loc EXCEPT ![w] = [IdleLoc EXCEPT !.op = "level_1_show"]]
            /\ pc' = [pc EXCEPT ![w] = "done"]
            /\ UNCHANGED <<counters, applied, observed, everOver>>
  /\ events' = events + 1
  /\ UNCHANGED <<now, exclude, noads, winStart, scope>>

\* the same write with the flag's life aligned to what remains of the counter's
SetUserLevel1ShowCounter_no_ads_counter_ttl(w) ==
  /\ pc[w] = "L1_no_ads"
  /\ noads' = GatewaySet(noads, user_level_1_no_ads_cache_key(loc[w].uid[1], loc[w].id), 1,
                 Some(GatewayTtl(counters,
                        user_level_1_campaign_show_counter_cache_key(loc[w].uid[1], loc[w].id))))
  /\ loc' = [loc EXCEPT ![w].wrote = TRUE]
  /\ pc' = [pc EXCEPT ![w] = "done"]
  /\ UNCHANGED <<now, counters, exclude, ghost, events, scope>>
\* line 187 -> _set_user_level_1_no_ads: the flag, value 1, for timeout hours
SetUserLevel1ShowCounter_no_ads(w) ==
  /\ pc[w] = "L1_no_ads"
  /\ noads' = GatewaySet(noads, user_level_1_no_ads_cache_key(loc[w].uid[1], loc[w].id), 1,
                         _get_hours_seconds(loc[w].timeout))
  /\ loc' = [loc EXCEPT ![w].wrote = TRUE]
  /\ pc' = [pc EXCEPT ![w] = "done"]
  /\ UNCHANGED <<now, counters, exclude, ghost, events, scope>>

\* ------------------------------------------- user x level-2 watch-time counter
\* set_user_level_2_watch_time_counter -> _set_user_level_2_watch_time_counter:
\* uid test and the guard of lines 192-193
SetUserLevel2WatchTimeCounter_guard(w) ==
  /\ pc[w] = "idle" /\ events < MaxEvents
  /\ \E uid \in UserArgs :
       IF uid # None
       THEN \E l \in Level2Ids, watch_time \in WatchTimes,
               timeout \in Windows, max_allowed \in L2Thresholds :
              LET got == get_user_level_2_no_ads(uid, l)
              IN /\ loc' = [loc EXCEPT ![w] = [IdleLoc EXCEPT !.op = "level_2_watch", !.uid = uid,
                               !.id = l, !.wt = watch_time, !.timeout = timeout,
                               !.max = max_allowed, !.got = got]]
                 /\ pc' = [pc EXCEPT ![w] = IF got # None THEN "done" ELSE "L2_incr"]
       ELSE /\ loc' = [loc EXCEPT ![w] = [IdleLoc EXCEPT !.op = "level_2_watch"]]
            /\ pc' = [pc EXCEPT ![w] = "done"]
  /\ events' = events + 1
  /\ UNCHANGED <<now, store, ghost, scope>>

\* lines 194-201: incr by watch_time with the hour window, then the threshold test
SetUserLevel2WatchTimeCounter_incr(w) ==
  /\ pc[w] = "L2_incr"
  /\ LET key == user_level_2_campaign_watch_time_counter_cache_key(loc[w].uid[1], loc[w].id)
         count == GatewayIncrValue(counters, key, loc[w].wt)
         over == count >= TimeDelta(loc[w].max).seconds
     IN /\ counters' = GatewayIncr(counters, key, loc[w].wt, _get_hours_seconds(loc[w].timeout))
        /\ loc' = [loc EXCEPT ![w].count = Some(count)]
        /\ pc' = [pc EXCEPT ![w] = IF over THEN "L2_no_ads" ELSE "done"]
        /\ Counted(key, loc[w].wt, count, over)
  /\ UNCHANGED <<now, exclude, noads, winStart, events, scope>>

\* line 202 -> _set_user_level_2_no_ads: the flag, value 1, for timeout hours
SetUserLevel2WatchTimeCounter_no_ads(w) ==
  /\ pc[w] = "L2_no_ads"
  /\ noads' = GatewaySet(noads, user_level_2_no_ads_cache_key(loc[w].uid[1], loc[w].id), 1,
                         _get_hours_seconds(loc[w].timeout))
  /\ loc' = [loc EXCEPT ![w].wrote = TRUE]
  /\ pc' = [pc EXCEPT ![w] = "done"]
  /\ UNCHANGED <<now, counters, exclude, ghost, events, scope>>

\* ------------------------------------------------------------- exclusion reads
\* the same reads with min_score = 0, and with rm_out_range off
_get_exclude_campaigns_list_from_zero == GatewayZget(exclude, exclude_campaigns_cache_key, 0)
_get_exclude_campaigns_list_store_no_rm ==
  GatewayZgetStore(exclude, exclude_campaigns_cache_key, now, FALSE)
\* _get_exclude_campaigns_list: zget from the current timestamp up, evicting the rest
_get_exclude_campaigns_list == GatewayZget(exclude, exclude_campaigns_cache_key, now)
_get_exclude_campaigns_list_store == GatewayZgetStore(exclude, exclude_campaigns_cache_key, now, TRUE)
\* _get_user_exclude_campaigns_list: the same on the user's sorted set
_get_user_exclude_campaigns_list(uid) ==
  GatewayZget(exclude, user_excluded_campaigns_cache_key(uid), now)
_get_user_exclude_campaigns_list_store(uid) ==
  GatewayZgetStore(exclude, user_excluded_campaigns_cache_key(uid), now, TRUE)
\* the members a read removed from a sorted set
Evicted(name) == {m \in Campaigns : exclude[name][m] # None /\ exclude'[name][m] = None}

\* get_exclude_campaigns_list
GetExcludeCampaignsList(w) ==
  /\ pc[w] = "idle" /\ events < MaxEvents
  /\ exclude' = _get_exclude_campaigns_list_store
  /\ loc' = [loc EXCEPT ![w] = [IdleLoc EXCEPT !.op = "list_global",
                                  !.res = _get_exclude_campaigns_list,
                                  !.evicted = Evicted(exclude_campaigns_cache_key)]]
  /\ pc' = [pc EXCEPT ![w] = "done"]
  /\ UNCHANGED <<now, counters, noads, ghost, scope>>
  /\ events' = events + 1

\* get_user_exclude_campaigns_list: an empty tuple without a uid
GetUserExcludeCampaignsList(w) ==
  /\ pc[w] = "idle" /\ events < MaxEvents
  /\ \E uid \in UserArgs :
       IF uid # None
       THEN /\ exclude' = _get_user_exclude_campaigns_list_store(uid[1])
            /\ loc' = [loc EXCEPT ![w] = [IdleLoc EXCEPT !.op = "list_user", !.uid = uid,
                          !.res = _get_user_exclude_campaigns_list(uid[1]),
                          !.evicted = Evicted(user_excluded_campaigns_cache_key(uid[1]))]]
       ELSE /\ exclude' = exclude
            /\ loc' = [loc EXCEPT ![w] = [IdleLoc EXCEPT !.op = "list_user", !.uid = uid]]
  /\ pc' = [pc EXCEPT ![w] = "done"]
  /\ UNCHANGED <<now, counters, noads, ghost, scope>>
  /\ events' = events + 1

\* get_user_and_campaign_exclude_list: uid test, then the global list (left operand of +)
GetUserAndCampaignExcludeList_global(w) ==
  /\ pc[w] = "idle" /\ events < MaxEvents
  /\ \E uid \in UserArgs :
       IF uid # None
       THEN /\ exclude' = _get_exclude_campaigns_list_store
            /\ loc' = [loc EXCEPT ![w] = [IdleLoc EXCEPT !.op = "list_combined", !.uid = uid,
                          !.res = _get_exclude_campaigns_list,
                          !.evicted = Evicted(exclude_campaigns_cache_key)]]
            /\ pc' = [pc EXCEPT ![w] = "C_user"]
       ELSE /\ exclude' = exclude
            /\ loc' = [loc EXCEPT ![w] = [IdleLoc EXCEPT !.op = "list_combined", !.uid = uid]]
            /\ pc' = [pc EXCEPT ![w] = "done"]
  /\ UNCHANGED <<now, counters, noads, ghost, scope>>
  /\ events' = events + 1

\* get_user_and_campaign_exclude_list: the user's list, appended to the global one
GetUserAndCampaignExcludeList_user(w) ==
  /\ pc[w] = "C_user"
  /\ exclude' = _get_user_exclude_campaigns_list_store(loc[w].uid[1])
  /\ loc' = [loc EXCEPT ![w].res = @ \o _get_user_exclude_campaigns_list(loc[w].uid[1]),
                        ![w].evicted = @ \cup Evicted(user_excluded_campaigns_cache_key(loc[w].uid[1]))]
  /\ pc' = [pc EXCEPT ![w] = "done"]
  /\ UNCHANGED <<now, counters, noads, ghost, events, scope>>

\* ------------------------------------------------------------------ flag reads

\* CampaignRequestHandler._check_level_1_no_ads
CheckLevel1NoAds(w) ==
  /\ pc[w] = "idle" /\ events < MaxEvents
  /\ \E uid \in UserArgs, l \in Level1Ids :
       loc' = [loc EXCEPT ![w] = [IdleLoc EXCEPT !.op = "check_level_1", !.uid = uid, !.id = l,
                                    !.res = <<Bool(get_user_level_1_no_ads(uid, l))>>]]
  /\ pc' = [pc EXCEPT ![w] = "done"]
  /\ UNCHANGED <<now, store, ghost, scope>>
  /\ events' = events + 1

\* CampaignRequestHandler._check_level_2_no_ads
CheckLevel2NoAds(w) ==
  /\ pc[w] = "idle" /\ events < MaxEvents
  /\ \E uid \in UserArgs, l \in Level2Ids :
       loc' = [loc EXCEPT ![w] = [IdleLoc EXCEPT !.op = "check_level_2", !.uid = uid, !.id = l,
                                    !.res = <<Bool(get_user_level_2_no_ads(uid, l))>>]]
  /\ pc' = [pc EXCEPT ![w] = "done"]
  /\ UNCHANGED <<now, store, ghost, scope>>
  /\ events' = events + 1

\* get_campaign_counter_timestamp
GetCampaignCounterTimestamp(w) ==
  /\ pc[w] = "idle" /\ events < MaxEvents
  /\ \E c \in Campaigns :
       loc' = [loc EXCEPT ![w] = [IdleLoc EXCEPT !.op = "get_timestamp", !.id = c,
                 !.got = GatewayGet(counters,
                                    campaign_total_show_count_insertion_timestamp_cache_key(c))]]
  /\ pc' = [pc EXCEPT ![w] = "done"]
  /\ UNCHANGED <<now, store, ghost, scope>>
  /\ events' = events + 1

\* ------------------------------------------------- request handler (xml_response)
Level1Args == {None} \cup {Some(l) : l \in Level1Ids}
Level2Args == {None} \cup {Some(l) : l \in Level2Ids}
\* _check_level_1_no_ads / _check_level_2_no_ads as xml_response calls them: the category
\* id may be None, and the key formatted with None is one no record call writes
_check_level_1_no_ads(uid, level_1_id) ==
  Bool(IF level_1_id # None THEN get_user_level_1_no_ads(uid, level_1_id[1]) ELSE None)
_check_level_2_no_ads(uid, level_2_id) ==
  Bool(IF level_2_id # None THEN get_user_level_2_no_ads(uid, level_2_id[1]) ELSE None)
\* line 104: not any([level_1_id, level_2_id, level_3_ids])
check_params(l) == l.level_1_id = None /\ l.level_2_id = None /\ ~l.level_3_ids
\* line 105: self.client is None
check_client(l) == ~l.client

\* xml_response, lines 104-106: the arguments, then the level-1 flag get
XmlResponse_check_level_1(w) ==
  /\ pc[w] = "idle" /\ events < MaxEvents
  /\ \E uid \in UserArgs, level_1_id \in Level1Args, level_2_id \in Level2Args,
        level_3_ids \in BOOLEAN, client \in BOOLEAN :
       loc' = [loc EXCEPT ![w] = [IdleLoc EXCEPT !.op = "xml_response", !.uid = uid,
                 !.level_1_id = level_1_id, !.level_2_id = level_2_id,
                 !.level_3_ids = level_3_ids, !.client = client,
                 !.check_level_1_no_ads = _check_level_1_no_ads(uid, level_1_id)]]
  /\ pc' = [pc EXCEPT ![w] = "X_check_2"]
  /\ events' = events + 1
  /\ UNCHANGED <<now, store, ghost, scope>>

\* the same step going on to the exclusion lists whatever the flags say
XmlResponse_check_level_2_ignore_flags(w) ==
  /\ pc[w] = "X_check_2"
  /\ LET l == loc[w]
         c2 == _check_level_2_no_ads(l.uid, l.level_2_id)
         empty == check_params(l) \/ check_client(l)
     IN /\ loc' = [loc EXCEPT ![w].check_level_2_no_ads = c2,
                              ![w].response = IF empty THEN "empty" ELSE @]
        /\ pc' = [pc EXCEPT ![w] = IF empty THEN "done" ELSE "X_exclude"]
  /\ UNCHANGED <<now, store, ghost, events, scope>>

\* lines 107-112: the level-2 flag get, then any([...]) and the empty response
XmlResponse_check_level_2(w) ==
  /\ pc[w] = "X_check_2"
  /\ LET l == loc[w]
         c2 == _check_level_2_no_ads(l.uid, l.level_2_id)
         empty == check_params(l) \/ l.check_level_1_no_ads \/ c2 \/ check_client(l)
     IN /\ loc' = [loc EXCEPT ![w].check_level_2_no_ads = c2,
                              ![w].response = IF empty THEN "empty" ELSE @]
        /\ pc' = [pc EXCEPT ![w] = IF empty THEN "done" ELSE "X_exclude"]
  /\ UNCHANGED <<now, store, ghost, events, scope>>

\* line 114, get_user_and_campaign_exclude_list: uid test, then the global list
XmlResponse_exclude_global(w) ==
  /\ pc[w] = "X_exclude"
  /\ IF loc[w].uid # None
     THEN /\ exclude' = _get_exclude_campaigns_list_store
          /\ loc' = [loc EXCEPT ![w].res = _get_exclude_campaigns_list,
                                ![w].evicted = Evicted(exclude_campaigns_cache_key)]
          /\ pc' = [pc EXCEPT ![w] = "X_exclude_user"]
     ELSE /\ exclude' = exclude
          /\ loc' = [loc EXCEPT ![w].res = <<>>]
          /\ pc' = [pc EXCEPT ![w] = "X_select"]
  /\ UNCHANGED <<now, counters, noads, ghost, events, scope>>

\* line 114, get_user_and_campaign_exclude_list: the user's list, appended
XmlResponse_exclude_user(w) ==
  /\ pc[w] = "X_exclude_user"
  /\ exclude' = _get_user_exclude_campaigns_list_store(loc[w].uid[1])
  /\ loc' = [loc EXCEPT ![w].res = @ \o _get_user_exclude_campaigns_list(loc[w].uid[1]),
                        ![w].evicted = @ \cup Evicted(user_excluded_campaigns_cache_key(loc[w].uid[1]))]
  /\ pc' = [pc EXCEPT ![w] = "X_select"]
  /\ UNCHANGED <<now, counters, noads, ghost, events, scope>>

\* lines 115-183 with _get_pre_and_mid_roll: the enabled relations outside the excluded
\* campaigns give some campaigns or none; with some, the limitation task is dispatched
\* (lines 87-91) and the response carries them, with none the response is empty
XmlResponse_select(w) ==
  /\ pc[w] = "X_select"
  /\ \E campaigns \in SUBSET (Campaigns \ Range(loc[w].res)) :
       loc' = [loc EXCEPT ![w].campaigns = campaigns,
                          ![w].dispatched = (campaigns # {}),
                          ![w].response = IF campaigns # {} THEN "vast" ELSE "empty"]
  /\ pc' = [pc EXCEPT ![w] = "done"]
  /\ UNCHANGED <<now, store, ghost, events, scope>>

\* ------------------------------------------------------- store unavailable on a read
ReadCalls == {"list_global", "list_user", "list_combined", "check_level_1", "check_level_2"}
\* the same outcome with the failure taken for "no data": the handler carries on
XmlResponse_raise_as_no_data(w) ==
  \/ /\ pc[w] = "idle" /\ events < MaxEvents
     /\ \E u \in Users, level_1_id \in Level1Args, level_2_id \in Level2Args,
           level_3_ids \in BOOLEAN, client \in BOOLEAN :
          loc' = [loc EXCEPT ![w] = [IdleLoc EXCEPT !.op = "xml_response", !.uid = Some(u),
                    !.level_1_id = level_1_id, !.level_2_id = level_2_id,
                    !.level_3_ids = level_3_ids, !.client = client, !.failed = TRUE]]
     /\ pc' = [pc EXCEPT ![w] = "X_check_2"]
     /\ events' = events + 1
     /\ UNCHANGED <<now, store, ghost, scope>>
  \/ /\ pc[w] \in {"X_check_2", "X_exclude", "X_exclude_user"} /\ loc[w].uid # None
     /\ loc' = [loc EXCEPT ![w].failed = TRUE]
     /\ pc' = [pc EXCEPT ![w] = CASE pc[w] = "X_check_2" -> "X_exclude"
                                  [] pc[w] = "X_exclude" -> "X_exclude_user"
                                  [] OTHER -> "X_select"]
     /\ UNCHANGED <<now, store, ghost, events, scope>>

\* xml_response when a store operation of lines 106, 107 or 114 fails: nothing in
\* lines 94-183 catches the exception, so the handler ends with it and
\* excluded_campaigns is never assigned
XmlResponse_raise(w) ==
  \/ /\ pc[w] = "idle" /\ events < MaxEvents
     /\ \E u \in Users, level_1_id \in Level1Args, level_2_id \in Level2Args,
           level_3_ids \in BOOLEAN, client \in BOOLEAN :
          loc' = [loc EXCEPT ![w] = [IdleLoc EXCEPT !.op = "xml_response", !.uid = Some(u),
                    !.level_1_id = level_1_id, !.level_2_id = level_2_id,
                    !.level_3_ids = level_3_ids, !.client = client,
                    !.failed = TRUE, !.response = "error"]]
     /\ pc' = [pc EXCEPT ![w] = "raised"]
     /\ events' = events + 1
     /\ UNCHANGED <<now, store, ghost, scope>>
  \/ /\ pc[w] \in {"X_check_2", "X_exclude", "X_exclude_user"} /\ loc[w].uid # None
     /\ loc' = [loc EXCEPT ![w].failed = TRUE, ![w].response = "error", ![w].res = <<>>]
     /\ pc' = [pc EXCEPT ![w] = "raised"]
     /\ UNCHANGED <<now, store, ghost, events, scope>>

\* a list read or a flag check of the cache manager when its store operation fails:
\* the reachable functions catch nothing, so the call ends with the exception
ReadCall_raise(w) ==
  \/ /\ pc[w] = "idle" /\ events < MaxEvents
     /\ \E op \in ReadCalls, u \in Users :
          loc' = [loc EXCEPT ![w] = [IdleLoc EXCEPT !.op = op, !.failed = TRUE,
                    !.uid = IF op = "list_global" THEN None ELSE Some(u)]]
     /\ pc' = [pc EXCEPT ![w] = "raised"]
     /\ events' = events + 1
     /\ UNCHANGED <<now, store, ghost, scope>>
  \/ /\ pc[w] = "C_user"
     /\ loc' = [loc EXCEPT ![w].failed = TRUE, ![w].res = <<>>]
     /\ pc' = [pc EXCEPT ![w] = "raised"]
     /\ UNCHANGED <<now, store, ghost, events, scope>>

\* the exception leaves the call
Unwind(w) ==
  /\ pc[w] = "raised"
  /\ pc' = [pc EXCEPT ![w] = "idle"]
  /\ loc' = [loc EXCEPT ![w] = IdleLoc]
  /\ UNCHANGED <<now, store, ghost, events, scope>>
\* ------------------------------------------------------------ scheduling
\* the call returns to its caller
Return(w) ==
  /\ pc[w] = "done"
  /\ pc' = [pc EXCEPT ![w] = "idle"]
  /\ loc' = [loc EXCEPT ![w] = IdleLoc]
  /\ UNCHANGED <<now, store, ghost, events, scope>>

\* the clock advances; keys whose expiry instant is reached are gone
Tick ==
  /\ events < MaxEvents
  /\ \E d \in TickSteps :
       /\ now' = now + d
       /\ counters' = Expire(counters, now + d)
       /\ noads' = Expire(noads, now + d)
  /\ applied' = [k \in ShowCounterKeys |-> IF counters'[k].present THEN applied[k] ELSE 0]
  /\ observed' = [k \in ShowCounterKeys |-> IF counters'[k].present THEN observed[k] ELSE 0]
  /\ winStart' = [c \in Campaigns |->
                    IF counters'[campaign_total_show_count_cache_key(c)].present
                    THEN winStart[c] ELSE None]
  /\ events' = events + 1
  /\ UNCHANGED <<exclude, pc, loc, everOver, scope>>

\* the steps of the calls that address one counter family
GlobalOps(w) ==
  \/ SetCampaignTotalShowCounter_get(w)
  \/ SetCampaignTotalShowCounter_set_ts(w)
  \/ SetCampaignTotalShowCounter_incr(w)
  \/ SetCampaignTotalShowCounter_ttl(w)
  \/ SetCampaignTotalShowCounter_zadd(w)
  \/ GetExcludeCampaignsList(w)
  \/ GetCampaignCounterTimestamp(w)
UserOps(w) ==
  \/ SetUserCampaignShowCounter_incr(w)
  \/ SetUserCampaignShowCounter_ttl(w)
  \/ SetUserCampaignShowCounter_zadd(w)
  \/ GetUserExcludeCampaignsList(w)
Level1Ops(w) ==
  \/ SetUserLevel1ShowCounter_incr(w)
  \/ SetUserLevel1ShowCounter_no_ads(w)
  \/ CheckLevel1NoAds(w)
Level2Ops(w) ==
  \/ SetUserLevel2WatchTimeCounter_guard(w)
  \/ SetUserLevel2WatchTimeCounter_incr(w)
  \/ SetUserLevel2WatchTimeCounter_no_ads(w)
  \/ CheckLevel2NoAds(w)
CombinedOps(w) ==
  \/ GetUserAndCampaignExcludeList_global(w)
  \/ GetUserAndCampaignExcludeList_user(w)

\* The four counter families live on disjoint keys.  In one behaviour the callers
\* address the families of scope, so that the bounded runs go deep in each family.
Step(w) ==
  \/ "global" \in scope /\ GlobalOps(w)
  \/ "user" \in scope /\ UserOps(w)
  \/ "level_1" \in scope /\ Level1Ops(w)
  \/ "level_2" \in scope /\ Level2Ops(w)
  \/ Return(w)

\* workers interleave at every store operation, and time passes between any two steps
Next == (\E w \in Workers : Step(w)) \/ Tick
Spec == Init /\ [][Next]_vars

\* sequential execution: one call at a time, each call within one clock reading
Alone(w) == \A v \in Workers \ {w} : pc[v] = "idle"
AllIdle == \A w \in Workers : pc[w] = "idle"
SeqNext ==
  \/ \E w \in Workers : Alone(w) /\ Step(w)
  \/ AllIdle /\ Tick
SeqSpec == Init /\ [][SeqNext]_vars

\* sequential execution of the calls that fill and read both exclusion lists
UnionInit ==
  /\ now = T0
  /\ counters = [k \in CounterKeys |-> AbsentKey]
  /\ exclude = [n \in ExcludeNames |-> [m \in Campaigns |-> None]]
  /\ noads = [k \in NoAdsKeys |-> AbsentKey]
  /\ pc = [w \in Workers |-> "idle"]
  /\ loc = [w \in Workers |-> IdleLoc]
  /\ applied = [k \in ShowCounterKeys |-> 0]
  /\ observed = [k \in ShowCounterKeys |-> 0]
  /\ everOver = [k \in ShowCounterKeys |-> FALSE]
  /\ winStart = [c \in Campaigns |-> None]
  /\ events = 0
  /\ scope = {"global", "user"}
UnionNext ==
  \/ \E w \in Workers :
       Alone(w) /\ (GlobalOps(w) \/ UserOps(w) \/ CombinedOps(w) \/ Return(w))
  \/ AllIdle /\ Tick
UnionSpec == UnionInit /\ [][UnionNext]_vars


\* the request handler beside the record calls and reads of every family, one call at
\* a time, the store failing or not on each read
HandlerOps(w) ==
  \/ XmlResponse_check_level_1(w)
  \/ XmlResponse_check_level_2(w)
  \/ XmlResponse_exclude_global(w)
  \/ XmlResponse_exclude_user(w)
  \/ XmlResponse_select(w)
FailureOps(w) ==
  \/ XmlResponse_raise(w)
  \/ ReadCall_raise(w)
  \/ Unwind(w)
RequestInit ==
  /\ now = T0
  /\ counters = [k \in CounterKeys |-> AbsentKey]
  /\ exclude = [n \in ExcludeNames |-> [m \in Campaigns |-> None]]
  /\ noads = [k \in NoAdsKeys |-> AbsentKey]
  /\ pc = [w \in Workers |-> "idle"]
  /\ loc = [w \in Workers |-> IdleLoc]
  /\ applied = [k \in ShowCounterKeys |-> 0]
  /\ observed = [k \in ShowCounterKeys |-> 0]
  /\ everOver = [k \in ShowCounterKeys |-> FALSE]
  /\ winStart = [c \in Campaigns |-> None]
  /\ events = 0
  /\ scope = {"global", "user", "level_1", "level_2"}
RequestNext ==
  \/ \E w \in Workers :
       Alone(w) /\ (Step(w) \/ CombinedOps(w) \/ HandlerOps(w) \/ FailureOps(w))
  \/ AllIdle /\ Tick
RequestSpec == RequestInit /\ [][RequestNext]_vars
\* ==================================================================== claims
ShowOps == {"global_show", "user_show", "level_1_show"}
\* the counter a record call of worker w increments
CounterKeyOf(w) ==
  CASE loc[w].op = "global_show" -> campaign_total_show_count_cache_key(loc[w].id)
    [] loc[w].op = "user_show" -> user_campaign_show_count_cache_key(loc[w].uid[1], loc[w].id)
    [] loc[w].op = "level_1_show" ->
         user_level_1_campaign_show_counter_cache_key(loc[w].uid[1], loc[w].id)
    [] loc[w].op = "level_2_watch" ->
         user_level_2_campaign_watch_time_counter_cache_key(loc[w].uid[1], loc[w].id)
\* the cap of a show counter is in the store: the exclusion member, or the level-1 flag
CapPresent(k) ==
  CASE k[1] = "campaign_total_show_count" -> exclude[exclude_campaigns_cache_key][k[2]] # None
    [] k[1] = "user_campaign_show_count" ->
         exclude[user_excluded_campaigns_cache_key(k[2])][k[3]] # None
    [] k[1] = "user_level_1_show_count" -> noads[user_level_1_no_ads_cache_key(k[2], k[3])].present
    [] OTHER -> FALSE
CappedKeys == {k \in ShowCounterKeys : k[1] # "user_level_2_watch_time"}

\* C1: in sequential execution a global / user-campaign / level-1 record call performs
\* its overflow write exactly when its increment brought the count to max_allowed or
\* more (so at exactly max_allowed it does, at max_allowed - 1 it does not); after such
\* a call the exclusion member or flag is in the store, and as long as no call has
\* reached its max_allowed on a counter the exclusion member or flag is absent.
C1_ThresholdInclusive ==
  /\ \A w \in Workers :
       (pc[w] = "done" /\ loc[w].op \in ShowOps /\ loc[w].count # None) =>
          /\ loc[w].wrote <=> loc[w].count[1] >= loc[w].max
          /\ loc[w].count[1] >= loc[w].max => CapPresent(CounterKeyOf(w))
  /\ \A k \in CappedKeys : ~everOver[k] => ~CapPresent(k)
\* the second call of a window with max_allowed = 2 has just written the cap
C1_Witness ==
  \E w \in Workers :
    /\ pc[w] = "done" /\ loc[w].op \in ShowOps /\ loc[w].count = Some(2) /\ loc[w].max = 2
    /\ loc[w].wrote /\ CapPresent(CounterKeyOf(w))

UserListName(u) == user_excluded_campaigns_cache_key(u)
\* a sorted set after the members scored below the current time are dropped
Kept(name) ==
  [m \in Campaigns |->
     IF exclude[name][m] # None /\ exclude[name][m][1] >= now THEN exclude[name][m] ELSE None]
Stale(name) == {m \in Campaigns : exclude[name][m] # None /\ exclude[name][m][1] < now}
Fresh(name) == {m \in Campaigns : exclude[name][m] # None /\ exclude[name][m][1] >= now}
\* worker w starts and completes a call of operation op in this step
Calls(w, op) == pc[w] = "idle" /\ pc'[w] = "done" /\ loc'[w].op = op

\* C3: in every reachable state, at every clock value, the global list and every user's
\* list hold only campaign ids whose stored score is at or after the current time.
C3_NoPastEntryReturned ==
  /\ \A m \in Range(_get_exclude_campaigns_list) : m \in Fresh(exclude_campaigns_cache_key)
  /\ \A u \in Users :
       \A m \in Range(_get_user_exclude_campaigns_list(u)) : m \in Fresh(UserListName(u))
\* a list holds a member of the past beside one of the future, and the read leaves it out
C3_Witness ==
  \E n \in ExcludeNames :
    /\ Stale(n) # {} /\ Fresh(n) # {}
    /\ n = exclude_campaigns_cache_key => Range(_get_exclude_campaigns_list) = Fresh(n)

\* C4: a read of the global list (of a user's list) drops from that sorted set exactly
\* the members scored below the current time, keeps the others with their scores, and
\* changes no other sorted set, no counter and no flag.
C4_LazyEviction ==
  [][\A w \in Workers :
       /\ Calls(w, "list_global") =>
            /\ exclude' = [exclude EXCEPT ![exclude_campaigns_cache_key] =
                                             Kept(exclude_campaigns_cache_key)]
            /\ counters' = counters /\ noads' = noads
       /\ (Calls(w, "list_user") /\ loc'[w].uid # None) =>
            /\ exclude' = [exclude EXCEPT ![UserListName(loc'[w].uid[1])] =
                                             Kept(UserListName(loc'[w].uid[1]))]
            /\ counters' = counters /\ noads' = noads
    ]_vars
\* a read has just returned the future member and evicted the past one
C4_Witness ==
  \E w \in Workers :
    /\ pc[w] = "done" /\ loc[w].op \in {"list_global", "list_user"}
    /\ loc[w].res # <<>> /\ loc[w].evicted # {}
    /\ \A m \in loc[w].evicted :
         exclude[IF loc[w].op = "list_global" THEN exclude_campaigns_cache_key
                 ELSE UserListName(loc[w].uid[1])][m] = None

\* C5: a level-2 record call that starts while the level-2 flag of its user and category
\* is present ends at once and changes no counter (value or expiry) and no flag,
\* whatever its watch time, window and threshold.
C5_GuardSkips ==
  [][\A w \in Workers :
       (/\ pc[w] = "idle" /\ pc'[w] # "idle" /\ loc'[w].op = "level_2_watch"
        /\ loc'[w].uid # None
        /\ noads[user_level_2_no_ads_cache_key(loc'[w].uid[1], loc'[w].id)].present)
       => (pc'[w] = "done" /\ counters' = counters /\ noads' = noads /\ exclude' = exclude)
    ]_vars
\* a call found the flag while the counter already held watch time, and did nothing
C5_Witness ==
  \E w \in Workers :
    /\ pc[w] = "done" /\ loc[w].op = "level_2_watch" /\ loc[w].uid # None
    /\ loc[w].got # None /\ loc[w].count = None
    /\ counters[user_level_2_campaign_watch_time_counter_cache_key(loc[w].uid[1], loc[w].id)].present

PerUserOps == {"user_show", "level_1_show", "level_2_watch", "list_user",
               "check_level_1", "check_level_2"}
\* C7: a per-user call without a uid ends at once, changes nothing in the store and
\* returns the empty tuple (a list) or False (a flag check); a global record call
\* takes no uid and always reaches its incr, which adds one to the campaign's counter.
C7_AbsentUserNoOp ==
  [][\A w \in Workers :
       /\ (/\ pc[w] = "idle" /\ pc'[w] # "idle" /\ loc'[w].op \in PerUserOps
           /\ loc'[w].uid = None)
          => /\ pc'[w] = "done" /\ counters' = counters /\ noads' = noads /\ exclude' = exclude
             /\ loc'[w].count = None /\ ~loc'[w].wrote
             /\ loc'[w].res = IF loc'[w].op \in {"check_level_1", "check_level_2"}
                              THEN <<FALSE>> ELSE <<>>
       /\ (pc[w] = "idle" /\ pc'[w] # "idle" /\ loc'[w].op = "global_show")
          => pc'[w] \in {"G_set_ts", "G_incr"}
       /\ (pc[w] = "G_set_ts" /\ pc'[w] # "G_set_ts") => pc'[w] = "G_incr"
       /\ (pc[w] = "G_incr" /\ pc'[w] # "G_incr")
          => LET k == campaign_total_show_count_cache_key(loc[w].id)
             IN /\ counters'[k].present
                /\ counters'[k].val = IF counters[k].present THEN counters[k].val + 1 ELSE 1
    ]_vars
\* a record call without a uid has ended while the store holds that family's counter
C7_Witness ==
  \E w \in Workers :
    /\ pc[w] = "done" /\ loc[w].op \in {"user_show", "level_1_show", "level_2_watch"}
    /\ loc[w].uid = None
    /\ \E k \in ShowCounterKeys : counters[k].present /\ k[1] # "campaign_total_show_count"

\* C8: within one window a counter holds the sum of the increments the calls applied to
\* it, whatever the interleaving, and the largest count a call was handed is that sum.
C8_NoLostUpdate ==
  \A k \in ShowCounterKeys :
    /\ counters[k].present => (counters[k].val = applied[k] /\ observed[k] = applied[k])
    /\ ~counters[k].present => applied[k] = 0
\* two global record calls both found the counter absent and both have incremented it
C8_Witness ==
  \E w1, w2 \in Workers :
    /\ w1 # w2 /\ loc[w1].op = "global_show" /\ loc[w2].op = "global_show"
    /\ loc[w1].id = loc[w2].id /\ loc[w1].got = None /\ loc[w2].got = None
    /\ loc[w1].count = Some(1) /\ loc[w2].count = Some(2)
    /\ counters[campaign_total_show_count_cache_key(loc[w1].id)].val = 2

\* C2: the score a global / user-campaign record call writes on overflow is the current
\* time plus what then remains of the counter key's life (the key's expiry instant), and
\* is never a time of the past, whatever the window and however much time passes between
\* the incr, the get_key_ttl and the write.
C2_ScoreIsCounterExpiry ==
  [][\A w \in Workers :
       (pc[w] \in {"G_zadd", "U_zadd"} /\ pc'[w] = "done") =>
          LET k == CounterKeyOf(w)
          IN /\ loc'[w].score[1] >= now
             /\ (counters[k].present /\ counters[k].exp # None)
                   => loc'[w].score[1] = counters[k].exp[1]
    ]_vars

\* C9: two global record calls that both found the campaign's counter absent, and both
\* wrote the insertion timestamp before either incremented, wrote the same timestamp:
\* the stored timestamp is that of a single first write.
C9_SingleFirstWrite ==
  \A w1, w2 \in Workers :
    (/\ w1 # w2 /\ pc[w1] = "G_incr" /\ pc[w2] = "G_incr" /\ loc[w1].id = loc[w2].id
     /\ loc[w1].ts # None /\ loc[w2].ts # None)
    => loc[w1].ts = loc[w2].ts

\* C6: for every uid, None included, the combined list holds exactly the ids of the
\* global list and of the user's list (the empty list without a uid).
C6_CombinedIsUnion ==
  \A w \in Workers :
    (pc[w] = "done" /\ loc[w].op = "list_combined") =>
       Range(loc[w].res) =
         Range(_get_exclude_campaigns_list)
         \cup (IF loc[w].uid = None THEN {}
               ELSE Range(_get_user_exclude_campaigns_list(loc[w].uid[1])))

\* C11: a level-1 / level-2 flag check returns True exactly when it is given a uid and
\* the flag key of that uid and category is present (set and not expired) at that
\* moment; without a uid it returns False.  It changes nothing in the store.
C11_BlockedIffFlagPresent ==
  [][\A w \in Workers :
       /\ Calls(w, "check_level_1") =>
            /\ loc'[w].res = <<(/\ loc'[w].uid # None
                                /\ noads[user_level_1_no_ads_cache_key(
                                           IF loc'[w].uid = None THEN "None" ELSE loc'[w].uid[1],
                                           loc'[w].id)].present)>>
            /\ counters' = counters /\ noads' = noads /\ exclude' = exclude
       /\ Calls(w, "check_level_2") =>
            /\ loc'[w].res = <<(/\ loc'[w].uid # None
                                /\ noads[user_level_2_no_ads_cache_key(
                                           IF loc'[w].uid = None THEN "None" ELSE loc'[w].uid[1],
                                           loc'[w].id)].present)>>
            /\ counters' = counters /\ noads' = noads /\ exclude' = exclude
    ]_vars
\* a check has answered True for a user whose flag an overflowing call had set
C11_Witness ==
  \E w \in Workers :
    /\ pc[w] = "done" /\ loc[w].op \in {"check_level_1", "check_level_2"}
    /\ loc[w].uid # None /\ loc[w].res = <<TRUE>>

\* C12: a level-2 record call that passes the guard adds its watch time to the counter
\* and sets the level-2 flag exactly when the accumulated watch time is at or above the
\* threshold max_allowed taken as a whole number of seconds, a day or more included.
C12_WatchTimeThreshold ==
  \A w \in Workers :
    (pc[w] = "done" /\ loc[w].op = "level_2_watch" /\ loc[w].count # None) =>
       (loc[w].wrote <=> loc[w].count[1] >= loc[w].max)

\* the counter a record call with arguments and locals l increments
KeyOfCall(l) ==
  CASE l.op = "global_show" -> campaign_total_show_count_cache_key(l.id)
    [] l.op = "user_show" -> user_campaign_show_count_cache_key(l.uid[1], l.id)
    [] l.op = "level_1_show" -> user_level_1_campaign_show_counter_cache_key(l.uid[1], l.id)
    [] OTHER -> <<"none">>
\* positions between the incr that saw the overflow and the write of the cap
PendingWrite == {"G_ttl", "G_zadd", "U_ttl", "U_zadd", "L1_no_ads"}
\* worker v receives the count of its incr in this step
IncrStep(v) == loc[v].count = None /\ loc'[v].count # None /\ loc'[v].op \in ShowOps

\* C13: while a worker stays between its incr (count >= max_allowed) and the write of
\* the cap, a record call of another worker on the same counter, made while the key
\* still holds that increment, is handed a count of at least the first worker's
\* max_allowed and, with a max_allowed no larger, goes on to the write; the write puts
\* the exclusion member or flag in the store, and every completed call that was handed
\* a count >= its max_allowed has written.
C13_NextCallRestoresCap ==
  /\ [](\A v \in Workers :
          (pc[v] = "done" /\ loc[v].op \in ShowOps /\ loc[v].count # None
           /\ loc[v].count[1] >= loc[v].max) => loc[v].wrote)
  /\ [][\A w, v \in Workers :
          /\ (/\ w # v /\ pc[w] \in PendingWrite /\ loc[w].op \in ShowOps /\ IncrStep(v)
              /\ KeyOfCall(loc'[v]) = KeyOfCall(loc[w])
              /\ counters[KeyOfCall(loc[w])].present
              /\ observed[KeyOfCall(loc[w])] >= loc[w].count[1])
             => /\ loc'[v].count[1] >= loc[w].max
                /\ loc'[v].max <= loc[w].max => pc'[v] \in PendingWrite
          /\ (pc[v] \in PendingWrite /\ pc'[v] = "done")
             => (loc'[v].wrote /\ CapPresent(KeyOfCall(loc[v]))')
       ]_vars
\* one worker still stands before its write; the next call on the key has written the cap
C13_Witness ==
  \E w, v \in Workers :
    /\ w # v /\ pc[w] \in PendingWrite /\ loc[w].op \in ShowOps
    /\ pc[v] = "done" /\ loc[v].op = loc[w].op /\ loc[v].count # None
    /\ KeyOfCall(loc[v]) = KeyOfCall(loc[w])
    /\ loc[v].count[1] > loc[w].count[1] /\ loc[v].max = loc[w].max
    /\ loc[v].wrote /\ CapPresent(KeyOfCall(loc[w]))

\* the expiry of the cap of a show counter: the exclusion score, or the flag's expiry
CapExpiry(k) ==
  CASE k[1] = "campaign_total_show_count" -> exclude[exclude_campaigns_cache_key][k[2]]
    [] k[1] = "user_campaign_show_count" -> exclude[user_excluded_campaigns_cache_key(k[2])][k[3]]
    [] k[1] = "user_level_1_show_count" -> noads[user_level_1_no_ads_cache_key(k[2], k[3])].exp
    [] OTHER -> None

\* C15: in sequential execution, with a window given to the call and to the one that
\* began the counter, an overflow write of a call whose counter was already at or above
\* max_allowed before it (so the cap of this window is in the store) leaves the cap's
\* expiry as it was: the exclusion score, or the level-1 flag's expiry.
C15_OverflowIdempotent ==
  [][\A w \in Workers :
       (/\ pc[w] \in {"G_zadd", "U_zadd", "L1_no_ads"} /\ pc'[w] = "done"
        /\ loc[w].count[1] > loc[w].max /\ loc[w].timeout # None
        /\ counters[KeyOfCall(loc[w])].present /\ counters[KeyOfCall(loc[w])].exp # None
        /\ CapPresent(KeyOfCall(loc[w])) /\ CapExpiry(KeyOfCall(loc[w])) # None)
       => CapExpiry(KeyOfCall(loc[w]))' = CapExpiry(KeyOfCall(loc[w]))
    ]_vars

ExclusionKeys ==
  {campaign_total_show_count_cache_key(c) : c \in Campaigns}
  \cup {user_campaign_show_count_cache_key(u, c) : u \in Users, c \in Campaigns}
\* the list read of the counter's exclusion set reports the counter's campaign
ReportedExcluded(k) ==
  IF k[1] = "campaign_total_show_count"
  THEN k[2] \in Range(_get_exclude_campaigns_list)
  ELSE k[3] \in Range(_get_user_exclude_campaigns_list(k[2]))
\* the exclusion member of the counter's campaign has a score after the current time
ExcludedBeyondNow(k) == CapPresent(k) /\ CapExpiry(k)[1] > now

\* C16: in sequential execution, for the global and the user-campaign counters: after a
\* call's overflow write the list read reports the campaign while the counter of that
\* window is present; an exclusion reaching beyond the current time has its counter
\* present (it ends when the window does); and a global call that found no counter
\* starts a window with count 1.
C16_LockStep ==
  /\ \A w \in Workers :
       (pc[w] = "done" /\ loc[w].op \in {"global_show", "user_show"} /\ loc[w].wrote
        /\ counters[KeyOfCall(loc[w])].present)
       => ReportedExcluded(KeyOfCall(loc[w]))
  /\ \A k \in ExclusionKeys : ExcludedBeyondNow(k) => counters[k].present
  /\ \A w \in Workers :
       (pc[w] = "done" /\ loc[w].op = "global_show" /\ loc[w].got = None)
       => loc[w].count = Some(1)

\* C17: every level-1 record call handed a count >= max_allowed goes on to set the
\* level-1 flag, and with a window of h hours the set leaves the flag present with
\* expiry = the time of the write + h * 3600, whatever the counter's remaining life
\* (the counters are not touched); a flag stays until its expiry instant and is gone
\* at it, so the user is blocked for h * 3600 seconds from the last overflowing call.
C17_Level1FlagFixedDuration ==
  [][/\ \A w \in Workers :
          /\ (IncrStep(w) /\ loc'[w].op = "level_1_show" /\ loc'[w].count[1] >= loc'[w].max)
             => pc'[w] = "L1_no_ads"
          /\ (pc[w] = "L1_no_ads" /\ pc'[w] # "L1_no_ads" /\ loc[w].timeout # None)
             => /\ pc'[w] = "done"
                /\ noads'[user_level_1_no_ads_cache_key(loc[w].uid[1], loc[w].id)]
                     = [present |-> TRUE, val |-> 1,
                        exp |-> Some(now + loc[w].timeout[1] * 3600)]
                /\ counters' = counters
     /\ \A u \in Users, l \in Level1Ids :
          LET k == user_level_1_no_ads_cache_key(u, l)
          IN (noads[k].present /\ noads[k].exp # None /\ noads'[k] # noads[k])
             => \/ ~noads'[k].present /\ noads[k].exp[1] <= now'
                \/ \E w \in Workers : pc[w] = "L1_no_ads" /\ pc'[w] = "done"
    ]_vars
\* a second overflowing call, later in the counter's window, has set the flag to expire
\* after the counter does
C17_Witness ==
  \E w \in Workers :
    /\ pc[w] = "done" /\ loc[w].op = "level_1_show" /\ loc[w].wrote /\ loc[w].timeout # None
    /\ loc[w].count[1] >= 2
    /\ LET f == noads[user_level_1_no_ads_cache_key(loc[w].uid[1], loc[w].id)]
           c == counters[user_level_1_campaign_show_counter_cache_key(loc[w].uid[1], loc[w].id)]
       IN /\ f.present /\ c.present /\ c.exp # None
          /\ f.exp = Some(now + loc[w].timeout[1] * 3600) /\ f.exp[1] > c.exp[1]

\* C18: every step that puts a member in an exclusion set, or a flag in the flag
\* namespace, is the overflow write of a record call of the matching kind, for that
\* campaign (and user) or that user and category, whose incr returned a count at or above
\* its max_allowed (for the level-2 call: its threshold in seconds).
C18_CapsOnlyFromOverflow ==
  [][/\ \A n \in ExcludeNames, m \in Campaigns :
          (exclude'[n][m] # None /\ exclude'[n][m] # exclude[n][m])
          => \E w \in Workers :
               /\ pc[w] \in {"G_zadd", "U_zadd"} /\ pc'[w] = "done" /\ loc[w].id = m
               /\ n = (IF loc[w].op = "global_show" THEN exclude_campaigns_cache_key
                       ELSE user_excluded_campaigns_cache_key(loc[w].uid[1]))
               /\ loc[w].count[1] >= loc[w].max
     /\ \A k \in NoAdsKeys :
          (noads'[k].present /\ noads'[k] # noads[k])
          => \E w \in Workers :
               /\ pc[w] \in {"L1_no_ads", "L2_no_ads"} /\ pc'[w] = "done"
               /\ k = (IF loc[w].op = "level_1_show"
                       THEN user_level_1_no_ads_cache_key(loc[w].uid[1], loc[w].id)
                       ELSE user_level_2_no_ads_cache_key(loc[w].uid[1], loc[w].id))
               /\ loc[w].count[1] >= loc[w].max
    ]_vars

\* the flag of the request's user and category is in the store
Level1FlagPresent(l) ==
  /\ l.uid # None /\ l.level_1_id # None
  /\ noads[user_level_1_no_ads_cache_key(IF l.uid = None THEN "None" ELSE l.uid[1],
                                         IF l.level_1_id = None THEN 7 ELSE l.level_1_id[1])].present
Level2FlagPresent(l) ==
  /\ l.uid # None /\ l.level_2_id # None
  /\ noads[user_level_2_no_ads_cache_key(IF l.uid = None THEN "None" ELSE l.uid[1],
                                         IF l.level_2_id = None THEN 9 ELSE l.level_2_id[1])].present

\* C14: a list read, a flag check or a request whose store operation failed ends with
\* the exception and with nothing else: it returns no list and no answer (a successful
\* call is never marked failed), the handler has chosen no campaign, dispatched no task
\* and built neither the empty nor a filled response, and from there it only unwinds,
\* changing nothing in the store.
C14_ReadFailurePropagates ==
  /\ [](\A w \in Workers :
          /\ loc[w].failed => /\ pc[w] = "raised" /\ loc[w].res = <<>>
                              /\ ~loc[w].dispatched /\ loc[w].campaigns = {}
                              /\ loc[w].response \notin {"empty", "vast"}
          /\ pc[w] = "raised" => loc[w].failed)
  /\ [][\A w \in Workers :
          pc[w] = "raised" => /\ pc'[w] \in {"raised", "idle"}
                              /\ counters' = counters /\ exclude' = exclude /\ noads' = noads
       ]_vars
\* a request of a user whose flag is set has ended with the exception of a failed read
C14_Witness ==
  \E w \in Workers :
    /\ pc[w] = "raised" /\ loc[w].op = "xml_response" /\ loc[w].failed
    /\ loc[w].response = "error" /\ ~loc[w].dispatched
    /\ (Level1FlagPresent(loc[w]) \/ Level2FlagPresent(loc[w]))

\* C19: a request first gets the level-1 flag, then the level-2 flag, and neither step
\* changes the store; when one of the flags is present, or no category id or no client
\* is given, the second step ends the request with the empty response: no exclusion
\* list is read (nothing is evicted), no campaign is chosen and no task is dispatched.
\* Otherwise it goes on to the exclusion lists; only past that point does a request
\* change an exclusion set or dispatch.
C19_FlagsBeforeLists ==
  [][\A w \in Workers :
       /\ (pc[w] = "idle" /\ pc'[w] = "X_check_2")
          => /\ loc'[w].check_level_1_no_ads = Level1FlagPresent(loc'[w])
             /\ counters' = counters /\ exclude' = exclude /\ noads' = noads
       /\ (pc[w] = "X_check_2" /\ pc'[w] \notin {"X_check_2", "raised"})
          => /\ counters' = counters /\ exclude' = exclude /\ noads' = noads
             /\ IF \/ loc[w].check_level_1_no_ads \/ Level2FlagPresent(loc[w])
                   \/ (loc[w].level_1_id = None /\ loc[w].level_2_id = None /\ ~loc[w].level_3_ids)
                   \/ ~loc[w].client
                THEN /\ pc'[w] = "done" /\ loc'[w].response = "empty"
                     /\ ~loc'[w].dispatched /\ loc'[w].campaigns = {}
                     /\ loc'[w].evicted = {} /\ loc'[w].res = <<>>
                ELSE pc'[w] = "X_exclude"
       /\ (loc'[w].op = "xml_response"
           /\ (exclude' # exclude \/ (loc'[w].dispatched /\ ~loc[w].dispatched)))
          => pc[w] \in {"X_exclude", "X_exclude_user", "X_select"}
    ]_vars
\* a request of a blocked user has ended with the empty response while an exclusion set
\* still holds a member of the past
C19_Witness ==
  \E w \in Workers :
    /\ pc[w] = "done" /\ loc[w].op = "xml_response"
    /\ (loc[w].check_level_1_no_ads \/ loc[w].check_level_2_no_ads)
    /\ loc[w].response = "empty" /\ ~loc[w].dispatched
    /\ \E n \in ExcludeNames : Stale(n) # {}
====
